---- MODULE Spec2Model ----
(***************************************************************************)
(* Scan-cache synchronisation engine of node-db-kraken:                    *)
(*   - AsyncParallelGenerator  (src/common/async-parallel-generator.ts)    *)
(*   - DynamoDbClientBase.scanParallel (dynamo-db-client-base.ts)          *)
(*   - DynamoDBLocalCacheStrategy (dynamodb-local-cache.strategy.ts)       *)
(*   - DynamoDBSyncManager.getRecords / hasChanges and DynamoDBStreams     *)
(* SpecMux, SpecScan and SpecCache run one component each and leave the    *)
(* variables of the others at their initial values; SpecSync runs one      *)
(* getRecords call with the multiplexer, the scan and the cache store it   *)
(* drives.                                                                 *)
(***************************************************************************)
EXTENDS Integers, Sequences, FiniteSets, TLC

(***************************************************************************)
(* Bounds of the model.                                                    *)
(***************************************************************************)
\* numConsumers handed to AsyncParallelGenerator
NumConsumers == 2
\* longest producer sequence
MaxLen == 3
\* most start() calls of one run
MaxStartCalls == 2

\* largest metrics.itemCount (and row count of the table)
MaxItemCount == 4
\* most rows the backend puts in one page
MaxPage == 2
\* largest options.maxParallel
MaxParallel == 3

\* most batches handed to one set()
MaxBatches == 3
\* most set() calls of one run
MaxSets == 2
\* bytes of one chunk of the read stream (highWaterMark, 16 KiB in the source,
\* scaled to the frame sizes of the model)
ChunkSize == 6

\* most shards DescribeStream reports
NumShards == 2
\* longest iterator chain of a shard
MaxShardPages == 2

Consumers == 1..NumConsumers

\* all sequences over S of length at most n
RECURSIVE SeqsUpTo(_, _)
SeqsUpTo(S, n) ==
    IF n = 0 THEN {<<>>}
    ELSE LET shorter == SeqsUpTo(S, n - 1)
         IN  shorter \cup {Append(s, x) : s \in {t \in shorter : Len(t) = n - 1}, x \in S}

IsPrefix(s, t) == Len(s) <= Len(t) /\ SubSeq(t, 1, Len(s)) = s

Min(a, b) == IF a <= b THEN a ELSE b
Max(a, b) == IF a >= b THEN a ELSE b

VARIABLES
    \* ---- AsyncParallelGenerator: the closure's state (lines 26-31)
    started,            \* let started
    done,               \* let done
    consumedCount,      \* let consumedCount
    activeConsumers,    \* let activeConsumers
    waitingConsumers,   \* the consumers whose resolver is in the Set
    \* ---- generatorLoop: position of the async function
    loopPc,             \* "idle" | "pull" | "ready" | "ack" | "finished"
    loopValue,          \* const value of the current iteration (0: none)
    loopRejected,       \* the promise of generatorLoop() rejected
    factoryCalls,       \* calls of generator()
    startCalls,         \* calls of start()
    \* ---- the producer handed in as generator()
    prodSeq,            \* the items it yields
    prodThrows,         \* it throws after them instead of ending
    prodPos,            \* items pulled from it so far
    \* ---- the consumers returned by createConsumer()
    pending,            \* c has a next() whose promise is not settled
    received,           \* the values next() of c has returned, in order
    ended,              \* next() of c has returned done: true
    returned,           \* return() of c has been called
    closeCalled,        \* close() has been called
    \* ---- scanParallel: arguments and the table behind the backend
    itemCount,          \* metrics.itemCount, the table's row count
    tableSizeBytes,     \* metrics.tableSizeBytes
    maxParallel,        \* options.maxParallel
    segRows,            \* rows the backend holds in each segment
    \* ---- scanParallel: locals of the generator
    totalSegments,      \* const totalSegments
    segmentIndex,       \* let segmentIndex
    scannedItemsCount,  \* let scannedItemsCount
    segmentLastKeys,    \* Map segment -> LastEvaluatedKey (0: no entry)
    pendingScans,       \* let pendingScans: requests in flight
    completedScan,      \* index in pendingScans of the scan being yielded
    resultKey,          \* result.LastEvaluatedKey of that scan (0: none)
    scanPc,             \* position of the generator
    scanDemand,         \* a next() of the generator is outstanding
    emitted,            \* the IScanParallelResult values yielded so far
    scanRequests,       \* ScanCommands sent so far
    \* ---- DynamoDBLocalCacheStrategy: the files of one storage key
    sidecar,            \* <key>.json: 0 (no file) or the set() that wrote it
    binExists,          \* <key>.bin exists
    binData,            \* the bytes of <key>.bin
    binGen,             \* the set() whose write stream created <key>.bin
    binClosed,          \* that write stream has finished
    \* ---- DynamoDBLocalCacheStrategy: the object
    writePromise,       \* this.writePromise: 0 (null) or the set() that made it
    promiseState,       \* state of the promise each set() made
    \* ---- a set() call
    setPc,              \* position of the call
    setGen,             \* number of set() calls so far; the current one
    setInputs,          \* the batches the generator of each set() yields
    setThrows,          \* the generator of the current set() throws at its end
    setPos,             \* batches written by the current set()
    setOutcome,         \* how the promise of each set() settled
    \* ---- a get() call and the reading of its extract
    getPc,              \* position of the call
    getAwaits,          \* the writePromise it awaits
    getResult,          \* how it settled: "none", "null", "rejected", "sample"
    getSample,          \* the set() whose sidecar it read (0: none)
    getDuringSet,       \* the set() in progress when get() was called (0: none)
    extracted,          \* the extract of the sample has been run through
    extract,            \* the batches the extract yielded
    \* ---- DynamoDBSyncManager.getRecords
    syncPc,             \* position of the generator
    useCache,           \* options.useCache
    currentSequenceNumber,  \* const currentSequenceNumber
    stagedValue,        \* the IStagedCacheData each set() was given, which
                        \* is the content of the sidecar it wrote
    startTimer,         \* the timer of line 225 is set
    \* ---- hasChanges and the change stream behind it
    streamShards,       \* the shards DescribeStream reported
    hcShards,           \* let shards: the shards that have an iterator
    hcShardIdx,         \* the shard of the for loop
    hcPages,            \* pages read from that shard
    hcNewerSeen,        \* that shard has handed out its newer record
    hcTimesRead,        \* the creation times of the records read so far
    records,            \* records.length
    hcResult,           \* "none", "true", "false" or "threw"
    readComplete        \* the shards read to the end of their chain

muxVars == <<started, done, consumedCount, activeConsumers, waitingConsumers,
             loopPc, loopValue, loopRejected, factoryCalls, startCalls,
             prodSeq, prodThrows, prodPos,
             pending, received, ended, returned, closeCalled>>

scanVars == <<itemCount, tableSizeBytes, maxParallel, segRows, totalSegments,
              segmentIndex, scannedItemsCount, segmentLastKeys, pendingScans,
              completedScan, resultKey, scanPc, scanDemand, emitted, scanRequests>>

cacheVars == <<sidecar, binExists, binData, binGen, binClosed, writePromise,
               promiseState, setPc, setGen, setInputs, setThrows, setPos,
               setOutcome, getPc, getAwaits, getResult, getSample,
               getDuringSet, extracted, extract>>

hcVars == <<streamShards, hcShards, hcShardIdx, hcPages, hcNewerSeen,
            hcTimesRead, records,
            hcResult, readComplete>>

syncVars == <<syncPc, useCache, currentSequenceNumber, stagedValue, startTimer,
              hcVars>>

vars == <<muxVars, scanVars, cacheVars, syncVars>>

\* what each component leaves alone
notMux == <<scanVars, cacheVars, syncVars>>
notScan == <<muxVars, cacheVars, syncVars>>
notCache == <<muxVars, scanVars, syncVars>>

(***************************************************************************)
(* AsyncParallelGenerator                                                  *)
(*                                                                         *)
(* Node runs one callback to completion and then every queued microtask    *)
(* before the next timer or I/O callback.  The continuation of next()      *)
(* behind its await (lines 74-82) is a microtask queued by the resolver    *)
(* call of line 48 or 58, and generatorLoop looks at consumedCount again   *)
(* only behind a timer (line 53): the continuations of all the resolved    *)
(* consumers are therefore part of the step that resolves them.            *)
(***************************************************************************)
InitMuxState ==
    /\ started = FALSE
    /\ done = FALSE
    /\ consumedCount = 0
    /\ activeConsumers = NumConsumers
    /\ waitingConsumers = {}
    /\ loopPc = "idle"
    /\ loopValue = 0
    /\ loopRejected = FALSE
    /\ factoryCalls = 0
    /\ startCalls = 0
    /\ prodPos = 0
    /\ pending = [c \in Consumers |-> FALSE]
    /\ received = [c \in Consumers |-> <<>>]
    /\ ended = [c \in Consumers |-> FALSE]
    /\ returned = [c \in Consumers |-> FALSE]
    /\ closeCalled = FALSE

InitMux ==
    /\ InitMuxState
    \* the producer's items are told apart: item i is the i-th it yields
    /\ prodSeq \in {[i \in 1..n |-> i] : n \in 0..MaxLen}
    /\ prodThrows \in BOOLEAN

\* the multiplexer before any producer is attached
InitMuxIdle ==
    /\ InitMuxState
    /\ prodSeq = <<>>
    /\ prodThrows = FALSE

\* start(), lines 100-105
startMutTwice ==
    /\ startCalls < MaxStartCalls
    /\ startCalls' = startCalls + 1
    /\ started' = TRUE
    /\ factoryCalls' = factoryCalls + 1
    /\ loopPc' = "pull"
    /\ UNCHANGED <<done, consumedCount, activeConsumers, waitingConsumers,
                   loopValue, loopRejected, prodSeq, prodThrows, prodPos,
                   pending, received, ended, returned, closeCalled>>

start ==
    /\ startCalls < MaxStartCalls
    /\ startCalls' = startCalls + 1
    /\ IF ~started
       THEN /\ started' = TRUE
            \* generatorLoop(): const gen = generator(), then the first pull
            /\ factoryCalls' = factoryCalls + 1
            /\ loopPc' = "pull"
       ELSE UNCHANGED <<started, factoryCalls, loopPc>>
    /\ UNCHANGED <<done, consumedCount, activeConsumers, waitingConsumers,
                   loopValue, loopRejected, prodSeq, prodThrows, prodPos,
                   pending, received, ended, returned, closeCalled>>

\* close(), lines 106-109: the resolvers are dropped from the Set, not called
close ==
    /\ ~closeCalled
    /\ closeCalled' = TRUE
    /\ done' = TRUE
    /\ waitingConsumers' = {}
    /\ UNCHANGED <<started, consumedCount, activeConsumers, loopPc, loopValue,
                   loopRejected, factoryCalls, startCalls, prodSeq, prodThrows,
                   prodPos, pending, received, ended, returned>>

\* next() of consumer c up to its await, lines 64-72.  A consumer pulls again
\* only when its previous pull has settled (for await), and not after it has
\* seen the end or returned.
consumerNext(c) ==
    /\ ~pending[c] /\ ~ended[c] /\ ~returned[c]
    /\ IF done
       THEN /\ ended' = [ended EXCEPT ![c] = TRUE]
            /\ UNCHANGED <<waitingConsumers, pending>>
       ELSE /\ waitingConsumers' = waitingConsumers \cup {c}
            /\ pending' = [pending EXCEPT ![c] = TRUE]
            /\ UNCHANGED ended
    /\ UNCHANGED <<started, done, consumedCount, activeConsumers, loopPc,
                   loopValue, loopRejected, factoryCalls, startCalls, prodSeq,
                   prodThrows, prodPos, received, returned, closeCalled>>

\* return() of consumer c, lines 84-87: the early exit of a for await
consumerReturnMutKeepCount(c) ==
    /\ ~pending[c] /\ ~ended[c] /\ ~returned[c]
    /\ returned' = [returned EXCEPT ![c] = TRUE]
    /\ UNCHANGED <<started, done, consumedCount, activeConsumers, waitingConsumers,
                   loopPc, loopValue, loopRejected, factoryCalls, startCalls,
                   prodSeq, prodThrows, prodPos, pending, received, ended,
                   closeCalled>>

consumerReturn(c) ==
    /\ ~pending[c] /\ ~ended[c] /\ ~returned[c]
    /\ activeConsumers' = activeConsumers - 1
    /\ returned' = [returned EXCEPT ![c] = TRUE]
    /\ UNCHANGED <<started, done, consumedCount, waitingConsumers, loopPc,
                   loopValue, loopRejected, factoryCalls, startCalls, prodSeq,
                   prodThrows, prodPos, pending, received, ended, closeCalled>>

\* generatorLoop: the for await has pulled value v from gen (line 38) and
\* resets consumedCount (line 39)
generatorLoopValue(v) ==
    /\ loopValue' = v
    /\ consumedCount' = 0
    /\ loopPc' = "ready"
    /\ UNCHANGED <<started, done, activeConsumers, waitingConsumers, loopRejected,
                   factoryCalls, startCalls, pending, received, ended, returned,
                   closeCalled>>

\* generatorLoop: gen has ended or thrown; the finally block (lines 56-59) sets
\* done and resolves the waiting consumers with undefined, which each of them
\* returns as done: true (lines 74-76).  The Set is not cleared.
generatorLoopFinally(threw) ==
    /\ done' = TRUE
    /\ pending' = [c \in Consumers |->
                      IF c \in waitingConsumers THEN FALSE ELSE pending[c]]
    /\ ended' = [c \in Consumers |->
                      IF c \in waitingConsumers THEN TRUE ELSE ended[c]]
    /\ loopRejected' = threw
    /\ loopPc' = "finished"
    /\ UNCHANGED <<started, consumedCount, activeConsumers, waitingConsumers,
                   loopValue, factoryCalls, startCalls, received, returned,
                   closeCalled>>

\* generatorLoop, line 38, over a producer that yields prodSeq
generatorLoopPull ==
    /\ loopPc = "pull"
    /\ IF prodPos < Len(prodSeq)
       THEN /\ generatorLoopValue(prodSeq[prodPos + 1])
            /\ prodPos' = prodPos + 1
       ELSE /\ generatorLoopFinally(prodThrows)
            /\ UNCHANGED prodPos
    /\ UNCHANGED <<prodSeq, prodThrows>>

\* generatorLoop, lines 42-49: once every active consumer waits (or done), each
\* waiting resolver is called with the value and the Set is cleared; every
\* resolved consumer counts itself and returns the value (lines 78-82).
generatorLoopDeliverMutNoBarrier ==
    /\ loopPc = "ready"
    /\ received' = [c \in Consumers |->
                      IF c \in waitingConsumers THEN Append(received[c], loopValue)
                      ELSE received[c]]
    /\ pending' = [c \in Consumers |->
                      IF c \in waitingConsumers THEN FALSE ELSE pending[c]]
    /\ consumedCount' = consumedCount + Cardinality(waitingConsumers)
    /\ waitingConsumers' = {}
    /\ loopPc' = "ack"
    /\ UNCHANGED <<started, done, activeConsumers, loopValue, loopRejected,
                   factoryCalls, startCalls, prodSeq, prodThrows, prodPos,
                   ended, returned, closeCalled>>

generatorLoopDeliverMutNoBarriers ==
    /\ loopPc = "ready"
    /\ received' = [c \in Consumers |->
                      IF c \in waitingConsumers THEN Append(received[c], loopValue)
                      ELSE received[c]]
    /\ pending' = [c \in Consumers |->
                      IF c \in waitingConsumers THEN FALSE ELSE pending[c]]
    /\ consumedCount' = consumedCount + Cardinality(waitingConsumers)
    /\ waitingConsumers' = {}
    /\ loopPc' = "pull"
    /\ UNCHANGED <<started, done, activeConsumers, loopValue, loopRejected,
                   factoryCalls, startCalls, prodSeq, prodThrows, prodPos,
                   ended, returned, closeCalled>>

generatorLoopDeliver ==
    /\ loopPc = "ready"
    /\ ~(Cardinality(waitingConsumers) < activeConsumers /\ ~done)
    /\ received' = [c \in Consumers |->
                      IF c \in waitingConsumers THEN Append(received[c], loopValue)
                      ELSE received[c]]
    /\ pending' = [c \in Consumers |->
                      IF c \in waitingConsumers THEN FALSE ELSE pending[c]]
    /\ consumedCount' = consumedCount + Cardinality(waitingConsumers)
    /\ waitingConsumers' = {}
    /\ loopPc' = "ack"
    /\ UNCHANGED <<started, done, activeConsumers, loopValue, loopRejected,
                   factoryCalls, startCalls, prodSeq, prodThrows, prodPos,
                   ended, returned, closeCalled>>

\* generatorLoop, lines 51-54: wait until every active consumer has counted
\* itself (or done), then go round the for await
generatorLoopAck ==
    /\ loopPc = "ack"
    /\ ~(consumedCount < activeConsumers /\ ~done)
    /\ loopPc' = "pull"
    /\ UNCHANGED <<started, done, consumedCount, activeConsumers, waitingConsumers,
                   loopValue, loopRejected, factoryCalls, startCalls, prodSeq,
                   prodThrows, prodPos, pending, received, ended, returned,
                   closeCalled>>

generatorLoop == generatorLoopPull \/ generatorLoopDeliver \/ generatorLoopAck

(***************************************************************************)
(* DynamoDbClientBase.scanParallel and the backend it scans                *)
(***************************************************************************)
\* DYNAMODB_MAX_SCAN_SIZE_IN_BYTES = 0.9 * 1024 * 1024, in tenths of a byte
DYNAMODB_MAX_SCAN_SIZE_IN_TENTHS == 9437184
\* const { maxParallel = 30 }, dynamo-db-client-base.ts line 249
DEFAULT_MAX_PARALLEL == 30
\* the cap on totalSegments, line 256
MAX_TOTAL_SEGMENTS == 10000

\* average item sizes of the tables scanned: they give an items limit of
\* 1, 2, 4 and 6, so 0, 1, 2 and 3 segments
AvgItemSizes == {900000, 400000, 200000, 150000}

\* getApproximateItemsLimit, lines 79-86, for metrics it does not reject:
\* Math.max(Math.floor(MAX / (tableSizeBytes / itemCount)), 1)
getApproximateItemsLimit(size, count) ==
    Max((DYNAMODB_MAX_SCAN_SIZE_IN_TENTHS * count) \div (10 * size), 1)

InvalidMetricsMutSizeOnly(size, count) == size = 0

\* the metrics getApproximateItemsLimit throws on, line 72
InvalidMetrics(size, count) == count = 0 \/ size = 0

\* const totalSegments, lines 254-258
TotalSegmentsMutClamp(size, count) ==
    Max(Min(Min(getApproximateItemsLimit(size, count) \div 2, MAX_TOTAL_SEGMENTS),
            count), 1)

TotalSegments(size, count) ==
    Min(Min(getApproximateItemsLimit(size, count) \div 2, MAX_TOTAL_SEGMENTS),
        count)

RECURSIVE SumFn(_, _)
SumFn(f, n) == IF n = 0 THEN 0 ELSE f[n - 1] + SumFn(f, n - 1)

\* the ways count rows lie in n segments
RowLayouts(n, count) ==
    {f \in [0..(n - 1) -> 0..count] : SumFn(f, n) = count}

InitScanState ==
    /\ totalSegments = 0
    /\ segmentIndex = 0
    /\ scannedItemsCount = 0
    /\ segmentLastKeys = <<>>
    /\ pendingScans = <<>>
    /\ completedScan = 0
    /\ resultKey = 0
    /\ scanPc = "start"
    /\ scanDemand = FALSE
    /\ emitted = <<>>
    /\ scanRequests = 0

\* a table whose itemCount is its row count; the reported size is zero or
\* goes with one of the average item sizes (an empty table may still report
\* the size of one item).  A pass of no segment sends no request, so the rows
\* behind it are left out.
InitScan ==
    /\ InitScanState
    /\ itemCount \in 0..MaxItemCount
    /\ tableSizeBytes \in {0} \cup {Max(itemCount, 1) * a : a \in AvgItemSizes}
    /\ maxParallel \in (1..MaxParallel) \cup {DEFAULT_MAX_PARALLEL}
    /\ segRows \in IF \/ InvalidMetrics(tableSizeBytes, itemCount)
                      \/ TotalSegments(tableSizeBytes, itemCount) = 0
                   THEN {<<>>}
                   ELSE RowLayouts(TotalSegments(tableSizeBytes, itemCount), itemCount)

\* no scan
InitScanIdle ==
    /\ InitScanState
    /\ itemCount = 0
    /\ tableSizeBytes = 0
    /\ maxParallel = 1
    /\ segRows = <<>>

\* The backend's answers to a ScanCommand for segment seg from bookmark key
\* (0: from the start of the segment): a page of n rows and the bookmark that
\* follows it (0: none).  A page holds a row while rows remain; the page that
\* reaches the end of the segment comes with or without a bookmark, and the
\* page behind the last row is empty and has none.
ScanAnswers(seg, key) ==
    LET left == segRows[seg] - key
    IN  IF left = 0
        THEN {[n |-> 0, key |-> 0]}
        ELSE {[n |-> n, key |-> key + n] : n \in 1..Min(left, MaxPage)}
             \cup {[n |-> left, key |-> 0] : x \in {a \in {0} : left <= MaxPage}}

\* the pull of the consumer of the generator: next()
scanPull ==
    /\ ~scanDemand
    /\ scanPc \in {"start", "loop", "race", "yielded"}
    /\ scanDemand' = TRUE
    /\ UNCHANGED <<itemCount, tableSizeBytes, maxParallel, segRows, totalSegments,
                   segmentIndex, scannedItemsCount, segmentLastKeys, pendingScans,
                   completedScan, resultKey, scanPc, emitted, scanRequests>>

\* lines 249-277: getApproximateItemsLimit throws on invalid metrics, else
\* totalSegments is computed and the locals are set up
scanParallelBegin ==
    /\ scanDemand /\ scanPc = "start"
    /\ IF InvalidMetrics(tableSizeBytes, itemCount)
       THEN /\ scanPc' = "threw"
            /\ scanDemand' = FALSE
            /\ UNCHANGED <<totalSegments, segmentLastKeys>>
       ELSE /\ totalSegments' = TotalSegments(tableSizeBytes, itemCount)
            /\ segmentLastKeys' =
                   [g \in 0..(TotalSegments(tableSizeBytes, itemCount) - 1) |-> 0]
            /\ scanPc' = "loop"
            /\ UNCHANGED scanDemand
    /\ UNCHANGED <<itemCount, tableSizeBytes, maxParallel, segRows, segmentIndex,
                   scannedItemsCount, pendingScans, completedScan, resultKey,
                   emitted, scanRequests>>

\* lines 355-366: the wrap of segmentIndex behind a wave
WrappedIndex(index, scanned, keys) ==
    IF /\ index >= totalSegments
       /\ scanned < itemCount
       /\ \E g \in DOMAIN keys : keys[g] # 0
    THEN 0
    ELSE index

scanParallelWaveMutNoLimit ==
    /\ scanDemand /\ scanPc = "loop"
    /\ IF ~(scannedItemsCount < itemCount)
       THEN /\ scanPc' = "done"
            /\ scanDemand' = FALSE
            /\ UNCHANGED <<pendingScans, scanRequests, segmentIndex>>
       ELSE LET n == Max(totalSegments - segmentIndex, 0)
            IN  /\ pendingScans' =
                       [i \in 1..n |->
                           [segment |-> segmentIndex + i - 1,
                            exclusiveStartKey |-> segmentLastKeys[segmentIndex + i - 1]]]
                /\ scanRequests' = scanRequests + n
                /\ IF n > 0
                   THEN scanPc' = "race" /\ UNCHANGED segmentIndex
                   ELSE /\ segmentIndex' =
                               WrappedIndex(segmentIndex, scannedItemsCount, segmentLastKeys)
                        /\ scanPc' = IF segmentIndex' = segmentIndex THEN "spin" ELSE "loop"
                /\ UNCHANGED scanDemand
    /\ UNCHANGED <<itemCount, tableSizeBytes, maxParallel, segRows, totalSegments,
                   scannedItemsCount, segmentLastKeys, completedScan, resultKey,
                   emitted>>

\* lines 279-294: the test of the outer loop and the launch of a wave.  With
\* nothing to launch and no wrap the loop goes round without awaiting anything
\* and without changing anything: the generator spins and never returns.
scanParallelWave ==
    /\ scanDemand /\ scanPc = "loop"
    /\ IF ~(scannedItemsCount < itemCount)
       THEN /\ scanPc' = "done"
            /\ scanDemand' = FALSE
            /\ UNCHANGED <<pendingScans, scanRequests, segmentIndex>>
       ELSE LET n == Max(Min(maxParallel, totalSegments - segmentIndex), 0)
            IN  /\ pendingScans' =
                       [i \in 1..n |->
                           [segment |-> segmentIndex + i - 1,
                            exclusiveStartKey |-> segmentLastKeys[segmentIndex + i - 1]]]
                /\ scanRequests' = scanRequests + n
                /\ IF n > 0
                   THEN scanPc' = "race" /\ UNCHANGED segmentIndex
                   ELSE /\ segmentIndex' =
                               WrappedIndex(segmentIndex, scannedItemsCount, segmentLastKeys)
                        /\ scanPc' = IF segmentIndex' = segmentIndex THEN "spin" ELSE "loop"
                /\ UNCHANGED scanDemand
    /\ UNCHANGED <<itemCount, tableSizeBytes, maxParallel, segRows, totalSegments,
                   scannedItemsCount, segmentLastKeys, completedScan, resultKey,
                   emitted>>

\* lines 341-366: the completed scan leaves pendingScans, segmentIndex moves on
\* when the page had no LastEvaluatedKey, and behind the last scan of the wave
\* segmentIndex wraps
scanParallelRetire(i, key, keys) ==
    LET rest == [j \in 1..(Len(pendingScans) - 1) |->
                    IF j < i THEN pendingScans[j] ELSE pendingScans[j + 1]]
        index == IF key = 0 THEN segmentIndex + 1 ELSE segmentIndex
    IN  /\ pendingScans' = rest
        /\ IF Len(rest) > 0
           THEN segmentIndex' = index /\ scanPc' = "race"
           ELSE /\ segmentIndex' = WrappedIndex(index, scannedItemsCount, keys)
                /\ scanPc' = "loop"

scanParallelCompleteMutYieldsEmpty(i) ==
    /\ scanDemand /\ scanPc = "race"
    /\ i \in 1..Len(pendingScans)
    /\ \E r \in ScanAnswers(pendingScans[i].segment, pendingScans[i].exclusiveStartKey) :
          /\ segmentLastKeys' =
                 [segmentLastKeys EXCEPT ![pendingScans[i].segment] = r.key]
          /\ scannedItemsCount' = scannedItemsCount + r.n
          /\ emitted' = Append(emitted,
                               [segment |-> pendingScans[i].segment,
                                from |-> pendingScans[i].exclusiveStartKey,
                                scanned |-> r.n])
          /\ completedScan' = i
          /\ resultKey' = r.key
          /\ scanPc' = "yielded"
          /\ scanDemand' = FALSE
          /\ UNCHANGED <<pendingScans, segmentIndex>>
    /\ UNCHANGED <<itemCount, tableSizeBytes, maxParallel, segRows, totalSegments,
                   scanRequests>>

\* lines 309-339: the first pending scan to complete wins the race; its
\* bookmark is recorded or deleted, and a page with items is counted and yielded
scanParallelComplete(i) ==
    /\ scanDemand /\ scanPc = "race"
    /\ i \in 1..Len(pendingScans)
    /\ \E r \in ScanAnswers(pendingScans[i].segment, pendingScans[i].exclusiveStartKey) :
          /\ segmentLastKeys' =
                 [segmentLastKeys EXCEPT ![pendingScans[i].segment] = r.key]
          /\ IF r.n > 0
             THEN /\ scannedItemsCount' = scannedItemsCount + r.n
                  /\ emitted' = Append(emitted,
                                       [segment |-> pendingScans[i].segment,
                                        from |-> pendingScans[i].exclusiveStartKey,
                                        scanned |-> r.n])
                  /\ completedScan' = i
                  /\ resultKey' = r.key
                  /\ scanPc' = "yielded"
                  /\ scanDemand' = FALSE
                  /\ UNCHANGED <<pendingScans, segmentIndex>>
             ELSE /\ scanParallelRetire(i, r.key,
                                        [segmentLastKeys EXCEPT
                                            ![pendingScans[i].segment] = r.key])
                  /\ UNCHANGED <<scannedItemsCount, emitted, completedScan,
                                 resultKey, scanDemand>>
    /\ UNCHANGED <<itemCount, tableSizeBytes, maxParallel, segRows, totalSegments,
                   scanRequests>>

\* the generator resumes behind the yield of line 329
scanParallelResume ==
    /\ scanDemand /\ scanPc = "yielded"
    /\ scanParallelRetire(completedScan, resultKey, segmentLastKeys)
    /\ completedScan' = 0
    /\ resultKey' = 0
    /\ UNCHANGED <<itemCount, tableSizeBytes, maxParallel, segRows, totalSegments,
                   scannedItemsCount, segmentLastKeys, scanDemand, emitted,
                   scanRequests>>

\* lines 298-311: a pending scan rejects first; Promise.race rejects and the
\* generator throws
scanParallelFailMutNoReject(i) ==
    /\ scanDemand /\ scanPc = "race"
    /\ i \in 1..Len(pendingScans)
    /\ scanPc' = "failed"
    /\ UNCHANGED <<itemCount, tableSizeBytes, maxParallel, segRows, totalSegments,
                   segmentIndex, scannedItemsCount, segmentLastKeys, pendingScans,
                   completedScan, resultKey, emitted, scanRequests, scanDemand>>

scanParallelFail(i) ==
    /\ scanDemand /\ scanPc = "race"
    /\ i \in 1..Len(pendingScans)
    /\ scanPc' = "failed"
    /\ scanDemand' = FALSE
    /\ UNCHANGED <<itemCount, tableSizeBytes, maxParallel, segRows, totalSegments,
                   segmentIndex, scannedItemsCount, segmentLastKeys, pendingScans,
                   completedScan, resultKey, emitted, scanRequests>>

scanParallel ==
    \/ scanParallelBegin
    \/ scanParallelWave
    \/ \E i \in 1..MaxParallel : scanParallelComplete(i)
    \/ scanParallelResume
    \/ \E i \in 1..MaxParallel : scanParallelFail(i)

(***************************************************************************)
(* DynamoDBLocalCacheStrategy                                              *)
(*                                                                         *)
(* One storage key.  The calls that change its files (set, and the clear   *)
(* inside it) follow one another: a set() is called when the one before    *)
(* has settled.  get() is called at any moment.                            *)
(***************************************************************************)
DYNAMODB_BUFFER_SEGMENT_SIZE == 4

\* the batches a generator yields: a batch is known by the length of the body
\* of its JSON text
BatchKinds == {1, 2}
Sets == 1..MaxSets

\* JSON.stringify(batch) as bytes, line 93: batch b is the text of an object
\* with a body of b characters, "{" "1"^b "}"
Stringify(b) == <<123>> \o [i \in 1..b |-> 49] \o <<125>>

\* JSON.parse(text), line 174: the batch whose text it is; a run of k digits
\* "1" is the text of a number, given here as -k; 0 when it throws
Parse(text) ==
    IF /\ Len(text) >= 3
       /\ text[1] = 123
       /\ text[Len(text)] = 125
       /\ \A i \in 2..(Len(text) - 1) : text[i] = 49
       /\ Len(text) - 2 \in BatchKinds
    THEN Len(text) - 2
    ELSE IF Len(text) >= 1 /\ \A i \in 1..Len(text) : text[i] = 49
         THEN 0 - Len(text)
         ELSE 0

\* Buffer.writeUInt32LE(n), lines 94-97
writeUInt32LE(n) ==
    <<n % 256, (n \div 256) % 256, (n \div 65536) % 256, (n \div 16777216) % 256>>

\* chunk.readUInt32LE(position), line 160 (position counts from 0)
readUInt32LE(chunk, position) ==
    chunk[position + 1] + 256 * chunk[position + 2]
        + 65536 * chunk[position + 3] + 16777216 * chunk[position + 4]

\* the frame writeBinary writes for a batch, lines 93-100
Frame(b) == writeUInt32LE(Len(Stringify(b))) \o Stringify(b)

RECURSIVE Frames(_)
Frames(batches) ==
    IF batches = <<>> THEN <<>> ELSE Frame(Head(batches)) \o Frames(Tail(batches))

\* readBinary, lines 153-188: the while loop over one chunk, from position.
\* st holds remainingBytes, pendingData and the batches yielded so far.
RECURSIVE DecodeChunk(_, _, _)
DecodePayload(chunk, position, st) ==
    IF Len(chunk) - position >= st.remainingBytes
    THEN LET rawData == SubSeq(chunk, position + 1, position + st.remainingBytes)
             text == st.pendingData \o rawData
             data == Parse(text)
         IN  DecodeChunk(chunk, position + st.remainingBytes,
                 IF data # 0
                 THEN [remainingBytes |-> 0, pendingData |-> <<>>,
                       out |-> Append(st.out, data)]
                 ELSE [remainingBytes |-> 0, pendingData |-> text, out |-> st.out])
    ELSE [remainingBytes |-> st.remainingBytes - (Len(chunk) - position),
          pendingData |-> st.pendingData \o SubSeq(chunk, position + 1, Len(chunk)),
          out |-> st.out]

DecodeChunk(chunk, position, st) ==
    IF ~(position < Len(chunk))
    THEN st
    ELSE IF st.remainingBytes = 0
         THEN IF Len(chunk) - position >= DYNAMODB_BUFFER_SEGMENT_SIZE
              THEN DecodePayload(chunk, position + DYNAMODB_BUFFER_SEGMENT_SIZE,
                       [st EXCEPT !.remainingBytes = readUInt32LE(chunk, position)])
              ELSE st
         ELSE DecodePayload(chunk, position, st)

\* readBinary, line 147: the read stream hands over the file in chunks of
\* highWaterMark bytes, the last one shorter
RECURSIVE ReadChunks(_, _)
ReadChunks(bytes, st) ==
    IF bytes = <<>>
    THEN st.out
    ELSE LET k == Min(ChunkSize, Len(bytes))
         IN  ReadChunks(SubSeq(bytes, k + 1, Len(bytes)),
                        DecodeChunk(SubSeq(bytes, 1, k), 0, st))

\* readBinary, lines 129-193: the batches it yields, nothing without a file
readBinary ==
    IF ~binExists
    THEN <<>>
    ELSE ReadChunks(binData, [remainingBytes |-> 0, pendingData |-> <<>>, out |-> <<>>])

InitCacheState ==
    /\ sidecar = 0
    /\ binExists = FALSE
    /\ binData = <<>>
    /\ binGen = 0
    /\ binClosed = FALSE
    /\ writePromise = 0
    /\ promiseState = [g \in Sets |-> "none"]
    /\ setPc = "idle"
    /\ setGen = 0
    /\ setInputs = [g \in Sets |-> <<>>]
    /\ setThrows = FALSE
    /\ setPos = 0
    /\ setOutcome = [g \in Sets |-> "none"]
    /\ getPc = "idle"
    /\ getAwaits = 0
    /\ getResult = "none"
    /\ getSample = 0
    /\ getDuringSet = 0
    /\ extracted = FALSE
    /\ extract = <<>>

InitCache == InitCacheState

\* set(storage, value, generator), line 208: the call, up to the first unlink
\* of clear()
setCall(batches, throws) ==
    /\ setPc = "idle"
    /\ setGen < MaxSets
    /\ setGen' = setGen + 1
    /\ setInputs' = [setInputs EXCEPT ![setGen + 1] = batches]
    /\ setThrows' = throws
    /\ setPos' = 0
    /\ setPc' = "unlinkJson"
    /\ UNCHANGED <<sidecar, binExists, binData, binGen, binClosed, writePromise,
                   promiseState, setOutcome, getPc, getAwaits, getResult, getSample,
                   getDuringSet, extracted, extract>>

clearUnlinkJsonMutKeepSidecar ==
    /\ setPc = "unlinkJson"
    /\ UNCHANGED sidecar
    /\ setInputs' = [g \in Sets |-> IF g = setGen THEN setInputs[g] ELSE <<>>]
    /\ setPc' = "unlinkBin"
    /\ UNCHANGED <<binExists, binData, binGen, binClosed, writePromise,
                   promiseState, setGen, setThrows, setPos, setOutcome,
                   getPc, getAwaits, getResult, getSample, getDuringSet, extracted, extract>>

\* clear(), lines 222-224: unlink of the sidecar, a missing file ignored
\* (no sidecar is left that names an earlier set(): only the batches of the
\* current one are remembered from here on)
clearUnlinkJson ==
    /\ setPc = "unlinkJson"
    /\ sidecar' = 0
    /\ setInputs' = [g \in Sets |-> IF g = setGen THEN setInputs[g] ELSE <<>>]
    /\ setPc' = "unlinkBin"
    /\ UNCHANGED <<binExists, binData, binGen, binClosed, writePromise,
                   promiseState, setGen, setThrows, setPos, setOutcome,
                   getPc, getAwaits, getResult, getSample, getDuringSet, extracted, extract>>

\* clear(), lines 226-228: unlink of the binary file, a missing file ignored
clearUnlinkBin ==
    /\ setPc = "unlinkBin"
    /\ binExists' = FALSE
    /\ binData' = <<>>
    /\ binGen' = 0
    /\ binClosed' = FALSE
    /\ setPc' = "open"
    /\ UNCHANGED <<sidecar, writePromise, promiseState, setGen, setInputs,
                   setThrows, setPos, setOutcome, getPc, getAwaits, getResult, getSample,
                   getDuringSet, extracted, extract>>

\* writeBinary, lines 71-92: the write stream creates the file and
\* this.writePromise is set to a new pending promise
writeBinaryOpen ==
    /\ setPc = "open"
    /\ binExists' = TRUE
    /\ binData' = <<>>
    /\ binGen' = setGen
    /\ binClosed' = FALSE
    /\ writePromise' = setGen
    /\ promiseState' = [promiseState EXCEPT ![setGen] = "pending"]
    /\ setPc' = "header"
    /\ UNCHANGED <<sidecar, setGen, setInputs, setThrows, setPos, setOutcome,
                   getPc, getAwaits, getResult, getSample, getDuringSet, extracted, extract>>

\* writeBinary, lines 92-99: the next batch of the generator, its length
\* header written
writeBinaryHeader ==
    /\ setPc = "header"
    /\ setPos < Len(setInputs[setGen])
    /\ binData' = binData \o writeUInt32LE(Len(Stringify(setInputs[setGen][setPos + 1])))
    /\ setPc' = "payload"
    /\ UNCHANGED <<sidecar, binExists, binGen, binClosed, writePromise,
                   promiseState, setGen, setInputs, setThrows, setPos, setOutcome,
                   getPc, getAwaits, getResult, getSample, getDuringSet, extracted, extract>>

\* writeBinary, lines 100-108: the batch's JSON text written
writeBinaryPayload ==
    /\ setPc = "payload"
    /\ binData' = binData \o Stringify(setInputs[setGen][setPos + 1])
    /\ setPos' = setPos + 1
    /\ setPc' = "header"
    /\ UNCHANGED <<sidecar, binExists, binGen, binClosed, writePromise,
                   promiseState, setGen, setInputs, setThrows, setOutcome,
                   getPc, getAwaits, getResult, getSample, getDuringSet, extracted, extract>>

\* writeBinary, lines 111-119: the generator has ended; the stream is ended
\* and, once finished, the promise resolves
writeBinaryEnd ==
    /\ setPc = "header"
    /\ setPos = Len(setInputs[setGen])
    /\ ~setThrows
    /\ binClosed' = TRUE
    /\ promiseState' = [promiseState EXCEPT ![setGen] = "resolved"]
    /\ setPc' = "sidecar"
    /\ UNCHANGED <<sidecar, binExists, binData, binGen, writePromise, setGen,
                   setInputs, setThrows, setPos, setOutcome, getPc, getAwaits,
                   getResult, getSample, getDuringSet, extracted, extract>>

\* writeBinary, lines 120-123, and set, lines 216-218: the generator has
\* thrown; the stream is destroyed, the promise rejects, and the catch of set
\* logs the error, so the promise of set() resolves
writeBinaryErrorMutSidecar ==
    /\ setPc = "header"
    /\ setPos = Len(setInputs[setGen])
    /\ setThrows
    /\ promiseState' = [promiseState EXCEPT ![setGen] = "rejected"]
    /\ setPc' = "sidecar"
    /\ UNCHANGED <<sidecar, binExists, binData, binGen, binClosed, writePromise,
                   setGen, setInputs, setThrows, setPos, setOutcome, getPc,
                   getAwaits, getResult, getSample, getDuringSet, extracted, extract>>

writeBinaryError ==
    /\ setPc = "header"
    /\ setPos = Len(setInputs[setGen])
    /\ setThrows
    /\ promiseState' = [promiseState EXCEPT ![setGen] = "rejected"]
    /\ setOutcome' = [setOutcome EXCEPT ![setGen] = "resolved"]
    /\ setPc' = "idle"
    /\ UNCHANGED <<sidecar, binExists, binData, binGen, binClosed, writePromise,
                   setGen, setInputs, setThrows, setPos, getPc, getAwaits,
                   getResult, getSample, getDuringSet, extracted, extract>>

\* set, lines 212-215: the sidecar is written behind writeBinary and the
\* promise of set() resolves
setWriteSidecar ==
    /\ setPc = "sidecar"
    /\ sidecar' = setGen
    /\ setOutcome' = [setOutcome EXCEPT ![setGen] = "resolved"]
    /\ setPc' = "idle"
    /\ UNCHANGED <<binExists, binData, binGen, binClosed, writePromise,
                   promiseState, setGen, setInputs, setThrows, setPos, getPc,
                   getAwaits, getResult, getSample, getDuringSet, extracted, extract>>

\* get(storage), lines 196-198: the call; it awaits the writePromise there is
getCall ==
    /\ getPc \in {"idle", "done"}
    /\ getAwaits' = writePromise
    /\ getDuringSet' = IF setPc # "idle" THEN setGen ELSE 0
    /\ getResult' = "none"
    /\ getSample' = 0
    /\ extracted' = FALSE
    /\ extract' = <<>>
    /\ getPc' = "await"
    /\ UNCHANGED <<sidecar, binExists, binData, binGen, binClosed, writePromise,
                   promiseState, setPc, setGen, setInputs, setThrows, setPos,
                   setOutcome>>

\* get, lines 196-200, and getInternal, lines 55-64: the awaited promise has
\* settled (a rejected one makes get() reject); the sidecar is read, and a
\* missing one gives null
getInternal ==
    /\ getPc = "await"
    /\ getAwaits # 0 => promiseState[getAwaits] # "pending"
    /\ getResult' = IF getAwaits # 0 /\ promiseState[getAwaits] = "rejected"
                    THEN "rejected"
                    ELSE IF sidecar = 0 THEN "null" ELSE "sample"
    /\ getSample' = IF getAwaits # 0 /\ promiseState[getAwaits] = "rejected"
                    THEN 0
                    ELSE sidecar
    /\ getAwaits' = 0
    /\ getPc' = "done"
    /\ UNCHANGED <<sidecar, binExists, binData, binGen, binClosed, writePromise,
                   promiseState, setPc, setGen, setInputs, setThrows, setPos,
                   setOutcome, getDuringSet, extracted, extract>>

\* the caller of get() runs through sample.extract: readBinary, lines 129-193
extractRead ==
    /\ getPc = "done"
    /\ getResult = "sample"
    /\ ~extracted
    /\ extracted' = TRUE
    /\ extract' = readBinary
    /\ UNCHANGED <<sidecar, binExists, binData, binGen, binClosed, writePromise,
                   promiseState, setPc, setGen, setInputs, setThrows, setPos,
                   setOutcome, getPc, getAwaits, getResult, getSample, getDuringSet>>

(***************************************************************************)
(* DynamoDBSyncManager.getRecords, hasChanges and DynamoDBStreams          *)
(*                                                                         *)
(* One getRecords call of a process that starts with whatever an earlier   *)
(* run left in the cache directory.  The change stream answers each call   *)
(* when it is made; what a shard holds is fixed by DescribeStream: a shard *)
(* that holds a record newer than the cached timestamp hands it out before *)
(* its iterator chain ends.                                                *)
(***************************************************************************)

\* currentSequenceNumber and metadata.sequenceRange: undefined, or the
\* StartingSequenceNumber of the range (0: the range has none)
Undefined == 0 - 1
SequenceRanges == {0, 100, 101}

\* metadata.timestamp of the entry an earlier run cached, and the time of this
\* run
CachedTime == 2
Now == CachedTime + 1

\* ApproximateCreationDateTime of a record (0: it has none)
RecordTimes == 0..(CachedTime + 1)

\* the Records of one GetRecords answer
StreamPages == {<<>>} \cup {<<t>> : t \in RecordTimes}

NoValue == [tableSize |-> 0, sequenceRange |-> Undefined, timestamp |-> 0]

\* a shard: getShardIterator fails for it, it holds a record created after
\* CachedTime, its SequenceNumberRange has equal start and end
ShardKinds == [iteratorFails : BOOLEAN, holdsNewer : BOOLEAN, closed : BOOLEAN]

KeptMutStrict(page, lastRecordTimestamp) ==
    SelectSeq(page, LAMBDA t : ~(t # 0 /\ t < lastRecordTimestamp))

\* getStreamRecords, lines 261-296: the records of a page that are kept
Kept(page, lastRecordTimestamp) ==
    SelectSeq(page, LAMBDA t : ~(t # 0 /\ t <= lastRecordTimestamp))

\* JSON.stringify of a page of scanParallel: a page is told by its row count
PageBatch(page) == page.scanned

InitSyncIdle ==
    /\ syncPc = "idle"
    /\ useCache = FALSE
    /\ currentSequenceNumber = Undefined
    /\ stagedValue = [g \in Sets |-> NoValue]
    /\ startTimer = FALSE
    /\ streamShards = <<>>
    /\ hcShards = <<>>
    /\ hcShardIdx = 0
    /\ hcPages = 0
    /\ hcNewerSeen = FALSE
    /\ hcTimesRead = {}
    /\ records = 0
    /\ hcResult = "none"
    /\ readComplete = {}

\* the locals of hasChanges before it runs and after it has returned
HcIdle ==
    /\ streamShards' = <<>>
    /\ hcShards' = <<>>
    /\ hcShardIdx' = 0
    /\ hcPages' = 0
    /\ hcNewerSeen' = FALSE
    /\ hcTimesRead' = {}
    /\ records' = 0
    /\ readComplete' = {}

\* getRecords, lines 178-180: getLastSequenceRange gives the range of the
\* latest shard, or undefined (an error inside it is caught and logged)
syncGetLastSequenceRangeMutAlwaysGet ==
    /\ syncPc = "call"
    /\ \E r \in SequenceRanges \cup {Undefined} : currentSequenceNumber' = r
    /\ syncPc' = "get"
    /\ UNCHANGED <<useCache, stagedValue, startTimer, hcVars>>

syncGetLastSequenceRange ==
    /\ syncPc = "call"
    /\ \E r \in SequenceRanges \cup {Undefined} : currentSequenceNumber' = r
    /\ syncPc' = IF useCache THEN "get" ELSE "fresh"
    /\ UNCHANGED <<useCache, stagedValue, startTimer, hcVars>>

\* getRecords, line 183: cacheStrategy.get is called
syncGet ==
    /\ syncPc = "get"
    /\ getCall
    /\ syncPc' = "getting"
    /\ UNCHANGED <<useCache, currentSequenceNumber, stagedValue, startTimer, hcVars>>

\* getRecords, lines 183-185: get has resolved; without a sample the scan is
\* fresh, with one hasChanges is called
syncSample ==
    /\ syncPc = "getting"
    /\ getInternal
    /\ syncPc' = IF getResult' = "sample" THEN "coarse" ELSE "fresh"
    /\ UNCHANGED <<useCache, currentSequenceNumber, stagedValue, startTimer, hcVars>>

isSameMutRangeOnly ==
    /\ currentSequenceNumber # Undefined
    /\ stagedValue[getSample].sequenceRange = currentSequenceNumber

\* hasChanges, lines 266-277: the coarse check
isSame ==
    /\ currentSequenceNumber # Undefined
    /\ stagedValue[getSample].tableSize = tableSizeBytes
    /\ stagedValue[getSample].sequenceRange = currentSequenceNumber

hasChangesCoarse ==
    /\ syncPc = "coarse"
    /\ IF isSame
       THEN syncPc' = "shards" /\ UNCHANGED hcResult
       ELSE syncPc' = "decided" /\ hcResult' = "true"
    /\ UNCHANGED <<useCache, currentSequenceNumber, stagedValue, startTimer,
                   streamShards, hcShards, hcShardIdx, hcPages, hcNewerSeen,
                   hcTimesRead,
                   records, readComplete>>

\* getAfterSequenceNumber, lines 116-146: a shard whose getShardIterator
\* rejects is left out of the result
getAfterSequenceNumber(shards) ==
    SelectSeq([i \in 1..Len(shards) |-> i], LAMBDA i : ~shards[i].iteratorFails)

\* getHorizon with skipClosedShards, lines 95-113: the shards with equal start
\* and end are left out
getHorizon(shards) ==
    SelectSeq([i \in 1..Len(shards) |-> i], LAMBDA i : ~shards[i].closed)

\* hasChanges, lines 279-296 and 332: the shards are fetched.  No stream, no
\* shard or no iterator: hasChanges returns true.  Promise.all of getHorizon
\* rejects when a getShardIterator does.
hasChangesShardsOf(shards) ==
    LET after == stagedValue[getSample].sequenceRange # 0
        selected == IF after THEN getAfterSequenceNumber(shards)
                             ELSE getHorizon(shards)
        rejects == ~after /\ \E k \in 1..Len(selected) : shards[selected[k]].iteratorFails
    IN  /\ streamShards' = shards
        /\ IF rejects
           THEN /\ hcResult' = "threw"
                /\ syncPc' = "threw"
                /\ UNCHANGED <<hcShards, hcShardIdx>>
           ELSE IF selected = <<>>
                THEN /\ hcResult' = "true"
                     /\ syncPc' = "decided"
                     /\ UNCHANGED <<hcShards, hcShardIdx>>
                ELSE /\ hcShards' = selected
                     /\ hcShardIdx' = 1
                     /\ syncPc' = "read"
                     /\ UNCHANGED hcResult

hasChangesShards ==
    /\ syncPc = "shards"
    /\ \E n \in 0..NumShards : \E shards \in [1..n -> ShardKinds] :
          \* (the ranges of the shards are looked at by getHorizon only)
          /\ stagedValue[getSample].sequenceRange # 0 =>
                \A i \in 1..n : ~shards[i].closed
          /\ hasChangesShardsOf(shards)
    /\ UNCHANGED <<useCache, currentSequenceNumber, stagedValue, startTimer,
                   hcPages, hcNewerSeen, hcTimesRead, records, readComplete>>

\* getAfterSequenceNumber, lines 120-128, and getHorizon, lines 62-73: the
\* ListStreams or DescribeStream call rejects; hasChanges and getRecords
\* reject with it
hasChangesDescribeFails ==
    /\ syncPc = "shards"
    /\ hcResult' = "threw"
    /\ syncPc' = "threw"
    /\ UNCHANGED <<useCache, currentSequenceNumber, stagedValue, startTimer,
                   streamShards, hcShards, hcShardIdx, hcPages, hcNewerSeen,
                   hcTimesRead,
                   records, readComplete>>

\* hasChanges, lines 298-315, and getStreamRecords, lines 245-309: one
\* GetRecords call for the shard of the loop; the kept records are pushed, and
\* behind the last page of the last shard hasChanges returns (lines 317-328)
hasChangesReadPage(page, more) ==
    LET shard == hcShards[hcShardIdx]
        newer == \E k \in 1..Len(page) : page[k] > CachedTime
        count == records + Len(Kept(page, stagedValue[getSample].timestamp))
    IN  /\ newer => streamShards[shard].holdsNewer
        /\ more => hcPages + 1 < MaxShardPages
        /\ (~more /\ streamShards[shard].holdsNewer) => (newer \/ hcNewerSeen)
        /\ records' = count
        /\ hcTimesRead' = hcTimesRead \cup {page[k] : k \in 1..Len(page)}
        /\ IF more
           THEN /\ hcPages' = hcPages + 1
                /\ hcNewerSeen' = (hcNewerSeen \/ newer)
                /\ UNCHANGED <<hcShardIdx, readComplete, hcResult, syncPc>>
           ELSE /\ hcPages' = 0
                /\ hcNewerSeen' = FALSE
                /\ readComplete' = readComplete \cup {shard}
                /\ hcShardIdx' = hcShardIdx + 1
                /\ IF hcShardIdx < Len(hcShards)
                   THEN UNCHANGED <<hcResult, syncPc>>
                   ELSE /\ hcResult' = IF count # 0 THEN "true" ELSE "false"
                        /\ syncPc' = "decided"

hasChangesRead ==
    /\ syncPc = "read"
    /\ \E page \in StreamPages, more \in BOOLEAN : hasChangesReadPage(page, more)
    /\ UNCHANGED <<useCache, currentSequenceNumber, stagedValue, startTimer,
                   streamShards, hcShards>>

\* getStreamRecords, line 256: the GetRecords call rejects; hasChanges and
\* getRecords reject with it
hasChangesReadFails ==
    /\ syncPc = "read"
    /\ hcResult' = "threw"
    /\ syncPc' = "threw"
    /\ UNCHANGED <<useCache, currentSequenceNumber, stagedValue, startTimer,
                   streamShards, hcShards, hcShardIdx, hcPages, hcNewerSeen,
                   hcTimesRead,
                   records, readComplete>>

syncReplayMutClears ==
    /\ syncPc = "decided"
    /\ hcResult = "false"
    /\ getPc = "done"
    /\ getResult = "sample"
    /\ ~extracted
    /\ extracted' = TRUE
    /\ extract' = readBinary
    /\ sidecar' = 0
    /\ UNCHANGED <<binExists, binData, binGen, binClosed, writePromise,
                   promiseState, setPc, setGen, setInputs, setThrows, setPos,
                   setOutcome, getPc, getAwaits, getResult, getSample, getDuringSet>>
    /\ syncPc' = "done"
    /\ hcTimesRead' = {}
    /\ UNCHANGED <<useCache, currentSequenceNumber, stagedValue, startTimer,
                   streamShards, hcShards, hcShardIdx, hcPages, hcNewerSeen,
                   records, hcResult, readComplete>>

\* getRecords, lines 194-199: without changes the extract of the sample is
\* run through and yielded, and the generator returns
syncReplay ==
    /\ syncPc = "decided"
    /\ hcResult = "false"
    /\ extractRead
    /\ syncPc' = "done"
    \* (the records hasChanges read are gone with its return)
    /\ hcTimesRead' = {}
    /\ UNCHANGED <<useCache, currentSequenceNumber, stagedValue, startTimer,
                   streamShards, hcShards, hcShardIdx, hcPages, hcNewerSeen,
                   records, hcResult, readComplete>>

\* getRecords, lines 203-227: the multiplexer is made for two consumers, set is
\* called with the cache consumer (it enters clear), the timer for start() is
\* set, and yield* makes the first pull of the data consumer
syncFreshMutNoCache ==
    /\ \/ syncPc = "fresh"
       \/ syncPc = "decided" /\ hcResult = "true"
    /\ activeConsumers' = 1
    /\ waitingConsumers' = {2}
    /\ pending' = [pending EXCEPT ![2] = TRUE]
    /\ UNCHANGED cacheVars
    /\ startTimer' = TRUE
    /\ HcIdle
    /\ syncPc' = "scanning"
    /\ UNCHANGED <<started, done, consumedCount, loopPc, loopValue, loopRejected,
                   factoryCalls, startCalls, prodSeq, prodThrows, prodPos,
                   received, ended, returned, closeCalled>>
    /\ UNCHANGED <<useCache, currentSequenceNumber, hcResult, stagedValue>>

syncFresh ==
    /\ \/ syncPc = "fresh"
       \/ syncPc = "decided" /\ hcResult = "true"
    /\ activeConsumers' = 2
    /\ waitingConsumers' = {2}
    /\ pending' = [pending EXCEPT ![2] = TRUE]
    /\ setCall(<<>>, FALSE)
    /\ stagedValue' = [stagedValue EXCEPT ![setGen + 1] =
                          [tableSize |-> tableSizeBytes,
                           sequenceRange |-> currentSequenceNumber,
                           timestamp |-> Now]]
    /\ startTimer' = TRUE
    /\ HcIdle
    /\ syncPc' = "scanning"
    /\ UNCHANGED <<started, done, consumedCount, loopPc, loopValue, loopRejected,
                   factoryCalls, startCalls, prodSeq, prodThrows, prodPos,
                   received, ended, returned, closeCalled>>
    /\ UNCHANGED <<useCache, currentSequenceNumber, hcResult>>

\* the timer of line 225 fires: manager.start()
syncStart ==
    /\ startTimer
    /\ start
    /\ startTimer' = FALSE
    /\ UNCHANGED <<syncPc, useCache, currentSequenceNumber, stagedValue, hcVars>>

\* generatorLoop, line 38, over scanParallel: the for await asks for the next
\* page
generatorLoopPullScan ==
    /\ loopPc = "pull"
    /\ scanPull
    /\ loopPc' = "pulling"
    /\ UNCHANGED <<started, done, consumedCount, activeConsumers, waitingConsumers,
                   loopValue, loopRejected, factoryCalls, startCalls, prodSeq,
                   prodThrows, prodPos, pending, received, ended, returned,
                   closeCalled>>

\* generatorLoop, line 38, over scanParallel: the page asked for has come (the
\* value is its place in the pass), or the pass has ended or thrown
generatorLoopTakeScan ==
    /\ loopPc = "pulling"
    /\ ~scanDemand
    /\ scanPc \in {"yielded", "done", "threw", "failed"}
    /\ IF scanPc = "yielded"
       THEN generatorLoopValue(Len(emitted))
       ELSE generatorLoopFinally(scanPc # "done")
    /\ UNCHANGED <<prodSeq, prodThrows, prodPos>>

\* generatorLoop, lines 42-49, with the cache consumer's batch handed to
\* writeBinary (line 92)
syncDeliver ==
    /\ generatorLoopDeliver
    /\ setInputs' = [setInputs EXCEPT ![setGen] =
                        IF 1 \in waitingConsumers
                        THEN Append(@, PageBatch(emitted[loopValue]))
                        ELSE @]
    /\ UNCHANGED <<sidecar, binExists, binData, binGen, binClosed, writePromise,
                   promiseState, setPc, setGen, setThrows, setPos, setOutcome,
                   getPc, getAwaits, getResult, getSample, getDuringSet,
                   extracted, extract>>

\* writeBinary, line 92: the for await pulls the cache consumer when the
\* batches it has been given are written
cacheConsumerNext ==
    /\ setPc = "header"
    /\ setPos = Len(setInputs[setGen])
    /\ consumerNext(1)

\* getRecords, line 227: the caller pulls the data consumer through yield*
dataConsumerNext ==
    /\ syncPc = "scanning"
    /\ consumerNext(2)

\* clear, lines 222-224, inside the set of getRecords: the sidecar goes, and
\* with it the value an earlier run had staged
syncUnlinkJson ==
    /\ clearUnlinkJson
    /\ stagedValue' = [g \in Sets |-> IF g = setGen THEN stagedValue[g] ELSE NoValue]
    /\ UNCHANGED <<syncPc, useCache, currentSequenceNumber, startTimer, hcVars>>

\* writeBinary, lines 109-119: the cache consumer has seen the end
syncWriteBinaryEnd ==
    /\ ended[1]
    /\ writeBinaryEnd

\* getRecords, lines 227-230: the data consumer has ended and the generator
\* returns
syncReturn ==
    /\ syncPc = "scanning"
    /\ ended[2]
    /\ syncPc' = "done"
    /\ UNCHANGED <<useCache, currentSequenceNumber, stagedValue, startTimer, hcVars>>

\* the caller of getRecords breaks out of its for await while it holds a
\* page: return() of the generator is passed on by yield* (line 227) to
\* return() of the data consumer, and getRecords is over
syncCallerReturn ==
    /\ syncPc = "scanning"
    /\ consumerReturn(2)
    /\ syncPc' = "returned"
    /\ UNCHANGED <<useCache, currentSequenceNumber, stagedValue, startTimer, hcVars>>

\* the table getRecords is called for
InitScanSync ==
    /\ InitScanState
    /\ itemCount \in {0, 2}
    /\ tableSizeBytes = itemCount * 200000
    /\ maxParallel = DEFAULT_MAX_PARALLEL
    /\ segRows \in IF InvalidMetrics(tableSizeBytes, itemCount)
                   THEN {<<>>}
                   ELSE RowLayouts(TotalSegments(tableSizeBytes, itemCount), itemCount)

\* the batches of the entry an earlier run staged: no page, one page, and
\* three pages
CachedPasses == {<<>>, <<2>>, <<1, 2, 1>>}

\* the cache directory: empty, or with the entry an earlier run staged
InitCacheSync ==
    /\ sidecar \in {0, 1}
    /\ binExists = (sidecar = 1)
    /\ setInputs \in IF sidecar = 1
                     THEN {[g \in Sets |-> IF g = 1 THEN b ELSE <<>>] :
                              b \in CachedPasses}
                     ELSE {[g \in Sets |-> <<>>]}
    /\ binData = Frames(setInputs[1])
    /\ binGen = sidecar
    /\ binClosed = (sidecar = 1)
    /\ writePromise = 0
    /\ promiseState = [g \in Sets |-> IF g = sidecar THEN "resolved" ELSE "none"]
    /\ setPc = "idle"
    /\ setGen = sidecar
    /\ setThrows = FALSE
    /\ setPos = Len(setInputs[1])
    /\ setOutcome = [g \in Sets |-> IF g = sidecar THEN "resolved" ELSE "none"]
    /\ getPc = "idle"
    /\ getAwaits = 0
    /\ getResult = "none"
    /\ getSample = 0
    /\ getDuringSet = 0
    /\ extracted = FALSE
    /\ extract = <<>>

InitSync ==
    /\ syncPc = "call"
    /\ useCache \in BOOLEAN
    /\ currentSequenceNumber = Undefined
    /\ stagedValue \in
          IF sidecar = 1
          THEN {[g \in Sets |-> IF g = 1
                                THEN [tableSize |-> size, sequenceRange |-> range,
                                      timestamp |-> CachedTime]
                                ELSE NoValue] :
                   size \in {tableSizeBytes, tableSizeBytes + 1},
                   range \in SequenceRanges \cup {Undefined}}
          ELSE {[g \in Sets |-> NoValue]}
    /\ startTimer = FALSE
    /\ streamShards = <<>>
    /\ hcShards = <<>>
    /\ hcShardIdx = 0
    /\ hcPages = 0
    /\ hcNewerSeen = FALSE
    /\ hcTimesRead = {}
    /\ records = 0
    /\ hcResult = "none"
    /\ readComplete = {}

(***************************************************************************)
(* Specifications                                                          *)
(***************************************************************************)
NextMux ==
    \/ start /\ UNCHANGED notMux
    \/ close /\ UNCHANGED notMux
    \/ \E c \in Consumers : consumerNext(c) /\ UNCHANGED notMux
    \/ \E c \in Consumers : consumerReturn(c) /\ UNCHANGED notMux
    \/ generatorLoopPull /\ UNCHANGED notMux
    \/ generatorLoopDeliver /\ UNCHANGED notMux
    \/ generatorLoopAck /\ UNCHANGED notMux

InitSpecMux == InitMux /\ InitScanIdle /\ InitCacheState /\ InitSyncIdle

SpecMux == InitSpecMux /\ [][NextMux]_vars

NextScan ==
    \/ scanPull /\ UNCHANGED notScan
    \/ scanParallelBegin /\ UNCHANGED notScan
    \/ scanParallelWave /\ UNCHANGED notScan
    \/ \E i \in 1..MaxParallel : scanParallelComplete(i) /\ UNCHANGED notScan
    \/ scanParallelResume /\ UNCHANGED notScan
    \/ \E i \in 1..MaxParallel : scanParallelFail(i) /\ UNCHANGED notScan

InitSpecScan == InitMuxIdle /\ InitScan /\ InitCacheState /\ InitSyncIdle

SpecScan == InitSpecScan /\ [][NextScan]_vars

NextCache ==
    \/ \E batches \in SeqsUpTo(BatchKinds, MaxBatches), throws \in BOOLEAN :
          setCall(batches, throws) /\ UNCHANGED notCache
    \/ clearUnlinkJson /\ UNCHANGED notCache
    \/ clearUnlinkBin /\ UNCHANGED notCache
    \/ writeBinaryOpen /\ UNCHANGED notCache
    \/ writeBinaryHeader /\ UNCHANGED notCache
    \/ writeBinaryPayload /\ UNCHANGED notCache
    \/ writeBinaryEnd /\ UNCHANGED notCache
    \/ writeBinaryError /\ UNCHANGED notCache
    \/ setWriteSidecar /\ UNCHANGED notCache
    \/ getCall /\ UNCHANGED notCache
    \/ getInternal /\ UNCHANGED notCache
    \/ extractRead /\ UNCHANGED notCache

InitSpecCache == InitMuxIdle /\ InitScanIdle /\ InitCache /\ InitSyncIdle

SpecCache == InitSpecCache /\ [][NextCache]_vars

\* getRecords with the multiplexer, the scan and the cache store it drives
NextSync ==
    \/ syncGetLastSequenceRange /\ UNCHANGED <<muxVars, scanVars, cacheVars>>
    \/ syncGet /\ UNCHANGED <<muxVars, scanVars>>
    \/ syncSample /\ UNCHANGED <<muxVars, scanVars>>
    \/ hasChangesCoarse /\ UNCHANGED <<muxVars, scanVars, cacheVars>>
    \/ hasChangesShards /\ UNCHANGED <<muxVars, scanVars, cacheVars>>
    \/ hasChangesDescribeFails /\ UNCHANGED <<muxVars, scanVars, cacheVars>>
    \/ hasChangesRead /\ UNCHANGED <<muxVars, scanVars, cacheVars>>
    \/ hasChangesReadFails /\ UNCHANGED <<muxVars, scanVars, cacheVars>>
    \/ syncReplay /\ UNCHANGED <<muxVars, scanVars>>
    \/ syncFresh /\ UNCHANGED scanVars
    \/ syncStart /\ UNCHANGED <<scanVars, cacheVars>>
    \/ generatorLoopPullScan /\ UNCHANGED <<cacheVars, syncVars>>
    \/ generatorLoopTakeScan /\ UNCHANGED <<scanVars, cacheVars, syncVars>>
    \/ syncDeliver /\ UNCHANGED <<scanVars, syncVars>>
    \/ generatorLoopAck /\ UNCHANGED <<scanVars, cacheVars, syncVars>>
    \/ cacheConsumerNext /\ UNCHANGED <<scanVars, cacheVars, syncVars>>
    \/ dataConsumerNext /\ UNCHANGED <<scanVars, cacheVars, syncVars>>
    \/ scanParallel /\ UNCHANGED <<muxVars, cacheVars, syncVars>>
    \/ syncUnlinkJson /\ UNCHANGED <<muxVars, scanVars>>
    \/ clearUnlinkBin /\ UNCHANGED <<muxVars, scanVars, syncVars>>
    \/ writeBinaryOpen /\ UNCHANGED <<muxVars, scanVars, syncVars>>
    \/ writeBinaryHeader /\ UNCHANGED <<muxVars, scanVars, syncVars>>
    \/ writeBinaryPayload /\ UNCHANGED <<muxVars, scanVars, syncVars>>
    \/ syncWriteBinaryEnd /\ UNCHANGED <<muxVars, scanVars, syncVars>>
    \/ setWriteSidecar /\ UNCHANGED <<muxVars, scanVars, syncVars>>
    \/ syncReturn /\ UNCHANGED <<muxVars, scanVars, cacheVars>>
    \/ syncCallerReturn /\ UNCHANGED <<scanVars, cacheVars>>

InitSpecSync == InitMuxIdle /\ InitScanSync /\ InitCacheSync /\ InitSync

SpecSync == InitSpecSync /\ [][NextSync]_vars

\* What getRecords has set going runs on without the caller: the timer of
\* start() fires, the loop polls, scan requests are answered, and the writes
\* of set() complete.  The pulls of the caller are not fair.
SpecSyncFair ==
    /\ SpecSync
    /\ WF_vars(syncStart /\ UNCHANGED <<scanVars, cacheVars>>)
    /\ WF_vars(generatorLoopPullScan /\ UNCHANGED <<cacheVars, syncVars>>)
    /\ WF_vars(generatorLoopTakeScan /\ UNCHANGED <<scanVars, cacheVars, syncVars>>)
    /\ WF_vars(syncDeliver /\ UNCHANGED <<scanVars, syncVars>>)
    /\ WF_vars(generatorLoopAck /\ UNCHANGED <<scanVars, cacheVars, syncVars>>)
    /\ WF_vars(cacheConsumerNext /\ UNCHANGED <<scanVars, cacheVars, syncVars>>)
    /\ WF_vars(scanParallel /\ UNCHANGED <<muxVars, cacheVars, syncVars>>)
    /\ WF_vars(syncUnlinkJson /\ UNCHANGED <<muxVars, scanVars>>)
    /\ WF_vars(clearUnlinkBin /\ UNCHANGED <<muxVars, scanVars, syncVars>>)
    /\ WF_vars(writeBinaryOpen /\ UNCHANGED <<muxVars, scanVars, syncVars>>)
    /\ WF_vars(writeBinaryHeader /\ UNCHANGED <<muxVars, scanVars, syncVars>>)
    /\ WF_vars(writeBinaryPayload /\ UNCHANGED <<muxVars, scanVars, syncVars>>)
    /\ WF_vars(syncWriteBinaryEnd /\ UNCHANGED <<muxVars, scanVars, syncVars>>)
    /\ WF_vars(setWriteSidecar /\ UNCHANGED <<muxVars, scanVars, syncVars>>)

\* The timers of lines 44 and 53 always fire and a consumer that has not seen
\* the end pulls again: the loop and the pulls are weakly fair.
SpecMuxFair ==
    /\ SpecMux
    /\ WF_vars(generatorLoop /\ UNCHANGED notMux)
    /\ \A c \in Consumers : WF_vars(consumerNext(c) /\ UNCHANGED notMux)

(***************************************************************************)
(* Claims about AsyncParallelGenerator                                     *)
(***************************************************************************)
NoneReturned == \A c \in Consumers : ~returned[c]

\* C1: with K consumers over a producer that yields s and then ends, when
\* nobody closes the multiplexer or returns early, what a consumer has received
\* is always a prefix of s, a consumer that has seen end-of-sequence has
\* received exactly s in producer order, and once start() has been called
\* every consumer does come to see end-of-sequence.
C1_EveryConsumerReceivesAll ==
    /\ []((~closeCalled /\ ~prodThrows /\ NoneReturned) =>
            \A c \in Consumers :
                /\ IsPrefix(received[c], prodSeq)
                /\ ended[c] => received[c] = prodSeq)
    /\ [](started =>
            <>(closeCalled \/ ~NoneReturned \/ \A c \in Consumers : ended[c]))

C1_Witness ==
    /\ ~closeCalled /\ ~prodThrows /\ NoneReturned
    /\ Len(prodSeq) = MaxLen
    /\ \A c \in Consumers : ended[c] /\ received[c] = prodSeq

\* C9: once close() has been called, no consumer pull is left pending: the
\* pulls pending at the call were resolved with end-of-sequence.
C9_CloseReleasesPendingPulls ==
    closeCalled => \A c \in Consumers : ~pending[c]

\* C10: after a consumer has returned early, the consumers that remain still
\* receive the producer's items in order, all of them by the time they see
\* end-of-sequence, and they do see it: the multiplexer does not deadlock.
C10_EarlyReturnDoesNotDeadlock ==
    /\ [](~closeCalled =>
            \A c \in Consumers : ~returned[c] =>
                /\ IsPrefix(received[c], prodSeq)
                /\ ended[c] => received[c] = prodSeq)
    /\ [](((\E c \in Consumers : returned[c]) /\ started) =>
            <>(closeCalled \/ \A c \in Consumers : returned[c] \/ ended[c]))

C10_Witness ==
    /\ ~closeCalled
    /\ Len(prodSeq) = MaxLen
    /\ \E r \in Consumers :
          /\ returned[r] /\ Len(received[r]) < Len(prodSeq)
          /\ \A c \in Consumers \ {r} : ended[c] /\ received[c] = prodSeq

(***************************************************************************)
(* Claims about scanParallel                                               *)
(***************************************************************************)
RECURSIVE SumScanned(_)
SumScanned(pages) ==
    IF pages = <<>> THEN 0 ELSE Head(pages).scanned + SumScanned(Tail(pages))

\* the rows the backend holds for the table
RowCount == SumFn(segRows, totalSegments)

\* C2: when a scanParallel pass has been pulled to its end, the scanned
\* counts of the pages it emitted add up to the table's row count.
C2_ScannedSumIsRowCount ==
    scanPc = "done" => SumScanned(emitted) = RowCount

\* C3: round trip of the disk cache.  A get() that reads the sidecar of a
\* set() that has resolved, no later set() having begun, has an extract that
\* yields exactly the batches that set() was given, in order, wherever the
\* frames fall relative to the chunks of the read stream.
C3_RoundTrip ==
    (extracted /\ getSample # 0 /\ getSample = setGen /\ setPc = "idle")
        => extract = setInputs[getSample]

C8_GetWaitsForSet ==
    (getPc = "done" /\ getDuringSet # 0) => setOutcome[getDuringSet] # "none"

(***************************************************************************)
(* Claims about getRecords and hasChanges                                  *)
(***************************************************************************)
\* the shards hasChanges asks for an iterator
SelectedShards ==
    {i \in 1..Len(streamShards) :
        stagedValue[getSample].sequenceRange = 0 => ~streamShards[i].closed}

\* C4: hasChanges returns false only when every shard selected for the check
\* gave an iterator and was read to the end of its chain, with no qualifying
\* record; a shard without an iterator never counts as a zero.
C4_UnchangedOnlyWhenAllShardsRead ==
    hcResult = "false" =>
        /\ records = 0
        /\ \A i \in SelectedShards :
              ~streamShards[i].iteratorFails /\ i \in readComplete

\* hasChanges has read every shard it had an iterator for
ShardReadsFinished == hcShards # <<>> /\ hcShardIdx > Len(hcShards)

\* C5: with a cached entry, an equal coarse check and shard reads that give no
\* qualifying record, hasChanges returns false and getRecords(useCache = true)
\* yields exactly the batches that were cached, with no segment request sent.
C5_UnchangedReplaysCache ==
    (/\ useCache /\ getSample # 0 /\ isSame
     /\ ShardReadsFinished /\ records = 0
     /\ syncPc \in {"decided", "done"})
        => /\ hcResult = "false"
           /\ scanRequests = 0
           /\ syncPc = "done" => extracted /\ extract = setInputs[getSample]

\* C6: with a cached entry and an equal coarse check, when a shard holds a
\* record created after the cached timestamp, hasChanges returns true and
\* getRecords does not replay the cache.
C6_NewerRecordForcesRescan ==
    (/\ useCache /\ getSample # 0 /\ isSame
     /\ hcResult \in {"true", "false"}
     /\ \E i \in 1..Len(streamShards) : streamShards[i].holdsNewer)
        => hcResult = "true" /\ ~extracted

(***************************************************************************)
(* Further claims about AsyncParallelGenerator                             *)
(***************************************************************************)
\* C11: lockstep.  In every reachable state no consumer that has not returned
\* has received more than one item more than the slowest such consumer.
C11_Lockstep ==
    \A c, d \in Consumers :
        (~returned[c] /\ ~returned[d]) => Len(received[c]) <= Len(received[d]) + 1

C11_Witness ==
    /\ \A c \in Consumers : ~returned[c] /\ Len(received[c]) = MaxLen
    /\ MaxLen >= 2

(***************************************************************************)
(* Further claims about getRecords, scanParallel and the cache store       *)
(***************************************************************************)
\* C12: when a segment request fails during the fresh scan of getRecords, the
\* sequence of the caller does not end normally.
C12_ScanFailureReachesCaller ==
    scanPc = "failed" => syncPc # "done"

\* C13: once the producer of the multiplexer has ended or thrown, no pull of a
\* consumer is pending: each has resolved with end-of-sequence.
C13_ProducerEndResolvesPulls ==
    loopPc = "finished" => \A c \in Consumers : ~pending[c]

\* C14: for valid metrics a scanParallel pass never goes round its outer loop
\* without sending a request or emitting a page.
C14_ScanNeverSpins ==
    scanPc # "spin"

\* C15: a step in which a segment request of scanParallel fails settles the
\* outstanding pull of the consumer with the failure and leaves the pages
\* emitted so far as they are, and no page is emitted after it.
C15_ScanFailureIsRaised ==
    [][scanPc' = "failed" => (emitted' = emitted /\ ~scanDemand')]_vars

C15_Witness ==
    scanPc = "failed" /\ Len(emitted) >= 2 /\ ~scanDemand

\* C16: getRecords(useCache = true) that finds no cache entry calls the
\* producer factory and set at most once each, and has called each exactly
\* once, the scan pass begun, when it returns.
C16_CacheMissScansAndStagesOnce ==
    (useCache /\ getResult = "null") =>
        /\ factoryCalls <= 1
        /\ setGen <= 1
        /\ syncPc = "done" =>
              factoryCalls = 1 /\ setGen = 1 /\ scanPc \in {"done", "threw", "failed"}

C16_Witness ==
    /\ useCache /\ getResult = "null" /\ syncPc = "done"
    /\ scanPc = "done" /\ sidecar = 1 /\ Len(received[2]) >= 2

\* hasChanges could not query the change stream: there is no current sequence
\* range, or the stream gave no shard iterator
StreamUnqueryable ==
    \/ currentSequenceNumber = Undefined
    \/ /\ isSame
       /\ \A i \in SelectedShards : streamShards[i].iteratorFails

\* C17: whenever the change stream cannot be queried for the check, hasChanges
\* returns true.
C17_UnqueryableStreamMeansChanged ==
    (useCache /\ getSample # 0 /\ hcResult # "none" /\ StreamUnqueryable)
        => hcResult = "true"

\* C18: getRecords with useCache = false never calls get, hasChanges or the
\* extract of a cached entry, whatever the cache holds, and when it returns it
\* has run one scan pass and called set with a new entry.
C18_NoCacheAlwaysScansFresh ==
    ~useCache =>
        /\ getPc = "idle" /\ getSample = 0
        /\ hcResult = "none"
        /\ ~extracted
        /\ syncPc = "done" =>
              /\ factoryCalls = 1
              /\ scanPc \in {"done", "threw", "failed"}
              /\ setGen >= 1
              /\ setOutcome[setGen] = "none" => setPc # "idle"
              /\ stagedValue[setGen].timestamp = Now

C18_Witness ==
    /\ ~useCache /\ syncPc = "done" /\ scanPc = "done"
    /\ setGen = 2 /\ sidecar = 2 /\ Len(received[2]) >= 2

C20_MissingSidecarIsNull ==
    [][(getPc = "await" /\ getPc' = "done" /\ sidecar = 0)
          => getResult' = "null"]_vars

(***************************************************************************)
(* Replay of a payload left in the cache directory by an earlier process,  *)
(* some of whose frames hold text that is not JSON                         *)
(***************************************************************************)

\* a frame payload JSON.parse throws on, lines 173-180: the text "{1" of an
\* object cut short
MalformedText == <<123, 49>>

\* the frames of a file: a batch kind, or Damaged for a frame whose payload
\* is MalformedText
Damaged == 0
FileFrameKinds == BatchKinds \cup {Damaged}

\* the bytes of one frame of the file, length prefix first (lines 93-100)
FileFrame(k) ==
    IF k = Damaged
    THEN writeUInt32LE(Len(MalformedText)) \o MalformedText
    ELSE Frame(k)

RECURSIVE FileOf(_)
FileOf(kinds) ==
    IF kinds = <<>> THEN <<>> ELSE FileFrame(Head(kinds)) \o FileOf(Tail(kinds))

\* the cache directory holds a sidecar and a binary file of up to MaxBatches
\* frames; no set() is in progress
InitReplay ==
    /\ sidecar = 1
    /\ binExists = TRUE
    /\ binData \in {FileOf(kinds) : kinds \in SeqsUpTo(FileFrameKinds, MaxBatches)}
    /\ binGen = 1
    /\ binClosed = TRUE
    /\ writePromise = 0
    /\ promiseState = [g \in Sets |-> "none"]
    /\ setPc = "idle"
    /\ setGen = 0
    /\ setInputs = [g \in Sets |-> <<>>]
    /\ setThrows = FALSE
    /\ setPos = 0
    /\ setOutcome = [g \in Sets |-> "none"]
    /\ getPc = "idle"
    /\ getAwaits = 0
    /\ getResult = "none"
    /\ getSample = 0
    /\ getDuringSet = 0
    /\ extracted = FALSE
    /\ extract = <<>>

NextReplay ==
    \/ getCall /\ UNCHANGED notCache
    \/ getInternal /\ UNCHANGED notCache
    \/ extractRead /\ UNCHANGED notCache

InitSpecReplay == InitMuxIdle /\ InitScanIdle /\ InitReplay /\ InitSyncIdle

SpecReplay == InitSpecReplay /\ [][NextReplay]_vars

\* the frames of a file taken one after another by their length prefixes,
\* and of those the batches whose payload is JSON
RECURSIVE WellFormedBatches(_)
WellFormedBatches(bytes) ==
    IF Len(bytes) < DYNAMODB_BUFFER_SEGMENT_SIZE
    THEN <<>>
    ELSE LET n == readUInt32LE(bytes, 0)
             last == Min(DYNAMODB_BUFFER_SEGMENT_SIZE + n, Len(bytes))
             data == Parse(SubSeq(bytes, DYNAMODB_BUFFER_SEGMENT_SIZE + 1, last))
             rest == WellFormedBatches(SubSeq(bytes, last + 1, Len(bytes)))
         IN  IF data # 0 THEN <<data>> \o rest ELSE rest

\* C21: reading a binary file in which some frame's payload is not JSON
\* yields every well-formed frame of the file, in order, those after the
\* malformed frame included.
C21_MalformedFrameIsLocal ==
    extracted => extract = WellFormedBatches(binData)

(***************************************************************************)
(* Further claims about the controller of AsyncParallelGenerator           *)
(***************************************************************************)

\* C22: however many times start() has been called, and whatever close()
\* calls lie between, the producer factory has been invoked once and one
\* producer loop has been started; before the first start() there is none.
C22_StartIsIdempotent ==
    /\ startCalls >= 1 => (factoryCalls = 1 /\ started /\ loopPc # "idle")
    /\ startCalls = 0 => (factoryCalls = 0 /\ ~started /\ loopPc = "idle")

C22_Witness ==
    /\ startCalls = MaxStartCalls
    /\ MaxStartCalls >= 2
    /\ factoryCalls = 1
    /\ \A c \in Consumers : Len(received[c]) >= 1

(***************************************************************************)
(* Further claims about scanParallel                                       *)
(***************************************************************************)

\* C23: on metrics with itemCount = 0 or tableSizeBytes = 0 scanParallel
\* throws at its first step: it computes no segment count, sends no request
\* and emits no page.
C23_InvalidMetricsRejected ==
    (itemCount = 0 \/ tableSizeBytes = 0) =>
        /\ scanPc \in {"start", "threw"}
        /\ scanRequests = 0
        /\ emitted = <<>>
        /\ pendingScans = <<>>
        /\ scanPc = "threw" => ~scanDemand

C23_Witness ==
    /\ itemCount >= 1
    /\ tableSizeBytes = 0
    /\ scanPc = "threw"

(***************************************************************************)
(* Further claims about DynamoDBLocalCacheStrategy                         *)
(***************************************************************************)

\* C24: a set() whose binary write failed has not resolved: once it has
\* settled, its promise is rejected.
C24_WriteFailureRejectsSet ==
    \A g \in Sets :
        (promiseState[g] = "rejected" /\ setOutcome[g] # "none")
            => setOutcome[g] = "rejected"

(***************************************************************************)
(* Further claims about hasChanges                                         *)
(***************************************************************************)

\* the cached entry and the current values differ in table size or in
\* sequence range
CoarseMismatch ==
    \/ stagedValue[getSample].tableSize # tableSizeBytes
    \/ stagedValue[getSample].sequenceRange # currentSequenceNumber

\* C25: with a cached entry whose tableSize or sequenceRange differs from the
\* current one, hasChanges never gets to fetch shards or read records, and
\* when it has returned it has returned true.
C25_CoarseMismatchMeansChanged ==
    (useCache /\ getSample # 0 /\ CoarseMismatch) =>
        /\ syncPc \notin {"shards", "read"}
        /\ syncPc = "decided" =>
              /\ hcResult = "true"
              /\ streamShards = <<>>
              /\ hcShards = <<>>
              /\ records = 0
              /\ readComplete = {}

C25_Witness ==
    /\ useCache
    /\ getSample # 0
    /\ syncPc = "decided"
    /\ hcResult = "true"
    /\ currentSequenceNumber = 100
    /\ stagedValue[getSample].sequenceRange = currentSequenceNumber
    /\ stagedValue[getSample].tableSize # tableSizeBytes

\* C26: a pass over a table of one row with maxParallel = 30 works with one
\* segment, has at most one request in flight, and sends no request once the
\* row has been scanned.
C26_SingleRowSingleSegment ==
    /\ []((/\ itemCount = 1
           /\ tableSizeBytes >= 1
           /\ maxParallel = DEFAULT_MAX_PARALLEL
           /\ scanPc # "start")
              => /\ totalSegments = 1
                 /\ Len(pendingScans) <= 1)
    /\ [][(/\ itemCount = 1
           /\ maxParallel = DEFAULT_MAX_PARALLEL
           /\ scannedItemsCount >= 1)
              => scanRequests' = scanRequests]_vars

\* C27: within a pass no page is emitted twice, and a segment of which a
\* page has been emitted has no request in flight that starts it again.
C27_NoSegmentRescanned ==
    /\ \A i, j \in 1..Len(emitted) :
          (i < j /\ emitted[i].segment = emitted[j].segment)
              => emitted[i].from # emitted[j].from
    /\ \A k \in 1..Len(pendingScans) :
          (scanPc = "race" /\ pendingScans[k].exclusiveStartKey = 0)
              => \A i \in 1..Len(emitted) :
                    emitted[i].segment # pendingScans[k].segment

(***************************************************************************)
(* Further claims about the producer loop of AsyncParallelGenerator        *)
(***************************************************************************)

\* consumer c has taken the item the loop pulled last (the items of the
\* producer are told apart by their position)
HasLastItem(c) ==
    /\ prodPos >= 1
    /\ Len(received[c]) >= 1
    /\ received[c][Len(received[c])] = prodPos

\* C28: when the loop stands before its next pull and the item it pulled last
\* was delivered, every consumer that is still active has taken that item
\* and counted itself.
C28_NoPullBeforeAcknowledged ==
    (loopPc = "pull" /\ \E c \in Consumers : HasLastItem(c)) =>
        /\ \A c \in Consumers : (~returned[c] /\ ~ended[c]) => HasLastItem(c)
        /\ consumedCount >= activeConsumers

C28_Witness ==
    /\ loopPc = "pull"
    /\ ~done
    /\ prodPos >= 2
    /\ activeConsumers = NumConsumers
    /\ \A c \in Consumers : HasLastItem(c)

\* C29: while the multiplexer runs (started, not done), an item is pulled
\* from the producer only in a state where every active consumer has a
\* pending pull registered.
C29_PullOnlyAtBarrier ==
    [][(prodPos' # prodPos /\ started /\ ~done)
          => \A c \in Consumers : ~returned[c] => pending[c]]_vars

\* C30: on metrics with itemCount >= 1 and tableSizeBytes >= 1 the segment
\* count scanParallel has computed is at least 1 and at most
\* min(10000, itemCount).
C30_TotalSegmentsClamped ==
    (itemCount >= 1 /\ tableSizeBytes >= 1 /\ scanPc # "start") =>
        /\ totalSegments >= 1
        /\ totalSegments <= Min(MAX_TOTAL_SEGMENTS, itemCount)

(***************************************************************************)
(* Further claims about getRecords and the entry it stages                 *)
(***************************************************************************)

\* C31: when a segment request of the pass has failed, the set() that
\* records the pass writes no sidecar.
C31_FailedPassGetsNoSidecar ==
    (scanPc = "failed" /\ setGen >= 1 /\ syncPc \in {"scanning", "done"})
        => sidecar # setGen

(***************************************************************************)
(* Further claims about close() and early return                           *)
(***************************************************************************)

\* C32: once close() has been called the producer is not pulled again and
\* no consumer is handed another item.
C32_CloseStopsProducer ==
    [][closeCalled => (prodPos' = prodPos /\ received' = received)]_vars

\* C33: when the caller of getRecords has returned early from a fresh scan,
\* the set() of the cache consumer completes, and until then the cache
\* consumer is never left waiting at a barrier that cannot open.
C33_EarlyReturnLetsCacheComplete ==
    (syncPc = "returned") ~> (setGen >= 1 /\ setOutcome[setGen] = "resolved")

C33_Witness ==
    /\ syncPc = "returned"
    /\ returned[2]
    /\ Len(received[2]) = 1
    /\ Len(received[1]) >= 2
    /\ scanPc = "done"
    /\ setOutcome[setGen] = "resolved"
    /\ sidecar = setGen

\* C34: a record created at or after the clock reading stored as the entry's
\* timestamp (no earlier than the scan that filled the entry) counts as a
\* change: a freshness check that has read such a record returns true.
C34_ChangesSinceStagingCounted ==
    (/\ useCache
     /\ syncPc = "decided"
     /\ \E t \in hcTimesRead : t >= stagedValue[getSample].timestamp)
        => hcResult = "true"

(***************************************************************************)
(* Further claims about the requests of scanParallel                       *)
(***************************************************************************)

\* the requests in flight: the pending scans, less the one whose page the
\* generator has yielded and not yet retired
InFlight ==
    IF scanPc = "yielded" THEN Len(pendingScans) - 1 ELSE Len(pendingScans)

\* C35: at every moment of a pass the requests in flight are at most
\* maxParallel and at most totalSegments.
C35_InFlightBounded ==
    /\ InFlight <= maxParallel
    /\ InFlight <= totalSegments
    /\ Len(pendingScans) <= Min(maxParallel, totalSegments)

C35_Witness ==
    /\ scanPc = "race"
    /\ maxParallel = 2
    /\ totalSegments = 3
    /\ Len(pendingScans) = 2
    /\ Len(emitted) >= 1

\* C36: a request in flight carries the bookmark its segment holds (none if
\* it holds none), no two requests in flight are for one segment, and the
\* pages emitted for a segment follow its bookmark chain: each starts behind
\* the one emitted before it.
C36_SegmentPagesInChainOrder ==
    /\ \A k \in 1..Len(pendingScans) :
          (scanPc = "race") =>
              pendingScans[k].exclusiveStartKey =
                  segmentLastKeys[pendingScans[k].segment]
    /\ \A k, l \in 1..Len(pendingScans) :
          k # l => pendingScans[k].segment # pendingScans[l].segment
    /\ \A i, j \in 1..Len(emitted) :
          (i < j /\ emitted[i].segment = emitted[j].segment)
              => emitted[i].from < emitted[j].from

\* C37: when the freshness check has read its shards, it has counted no
\* record whose creation time is at or before the cached timestamp and every
\* record whose creation time is after it: records were counted exactly when
\* a record read was newer than the timestamp or had no creation time, and
\* a newer record read makes the check return true.
C37_OnlyNewerRecordsCount ==
    (useCache /\ syncPc = "decided" /\ readComplete # {}) =>
        LET T == stagedValue[getSample].timestamp
        IN  /\ (\E t \in hcTimesRead : t > T) => (records >= 1 /\ hcResult = "true")
            /\ (\A t \in hcTimesRead : t # 0 /\ t <= T)
                  => (records = 0 /\ hcResult = "false")

C37_Witness ==
    /\ useCache
    /\ syncPc = "decided"
    /\ hcTimesRead = {CachedTime, CachedTime + 1}
    /\ stagedValue[getSample].timestamp = CachedTime
    /\ records = 1
    /\ hcResult = "true"


\* C38: when getRecords(useCache = true) decides "unchanged" and replays the
\* cache, no set and no clear is made: the sidecar and the binary payload of
\* the table key are what they were when the call began (the staged pass of
\* the earlier run), up to and after the replay
C38_ReplayLeavesCacheAlone ==
    (useCache /\ hcResult = "false" /\ syncPc \in {"decided", "done"}) =>
        /\ sidecar = 1
        /\ stagedValue[1].timestamp = CachedTime
        /\ binExists
        /\ binData = Frames(setInputs[1])
        /\ setGen = 1
        /\ setPc = "idle"
        /\ writePromise = 0
        /\ \A g \in Sets : g > 1 => setOutcome[g] = "none" /\ stagedValue[g] = NoValue

C38_Witness ==
    /\ useCache
    /\ syncPc = "done"
    /\ hcResult = "false"
    /\ extracted
    /\ Len(extract) >= 1
    /\ sidecar = 1
    /\ binData = Frames(setInputs[1])
    /\ Len(binData) > 0


\* pendingScans without its i-th entry
WithoutScan(i) ==
    [j \in 1..(Len(pendingScans) - 1) |->
        IF j < i THEN pendingScans[j] ELSE pendingScans[j + 1]]

\* C39: when a pending segment request completes (the race is won, not
\* rejected), a request that reads behind the last row of its segment gets an
\* empty page: nothing is emitted and nothing is added to scannedItemsCount,
\* yet the request leaves pendingScans and the bookmark of its segment is
\* cleared; a request with rows left emits one page of at least one row,
\* adds its rows to the count, and its bookmark is set to the page's key or
\* cleared
C39_EmptyPageRetiresSilently ==
    [][(/\ scanPc = "race"
        /\ scanDemand
        /\ scanPc' # "failed"
        /\ <<pendingScans, segmentLastKeys, emitted, scannedItemsCount, scanPc>>'
              # <<pendingScans, segmentLastKeys, emitted, scannedItemsCount, scanPc>>)
       => \E i \in 1..Len(pendingScans) :
             LET seg == pendingScans[i].segment
                 from == pendingScans[i].exclusiveStartKey
             IN  IF segRows[seg] - from = 0
                 THEN /\ emitted' = emitted
                      /\ scannedItemsCount' = scannedItemsCount
                      /\ pendingScans' = WithoutScan(i)
                      /\ segmentLastKeys' = [segmentLastKeys EXCEPT ![seg] = 0]
                      /\ scanPc' \in {"race", "loop"}
                 ELSE /\ Len(emitted') = Len(emitted) + 1
                      /\ emitted'[Len(emitted')].segment = seg
                      /\ emitted'[Len(emitted')].from = from
                      /\ emitted'[Len(emitted')].scanned >= 1
                      /\ scannedItemsCount' =
                            scannedItemsCount + emitted'[Len(emitted')].scanned
                      /\ segmentLastKeys'[seg] \in
                            {0, from + emitted'[Len(emitted')].scanned}
                      /\ scanPc' = "yielded"]_vars

\* a wave is in flight, a page was emitted, and one request more has
\* completed than pages were emitted: an empty page was retired
C39_Witness ==
    /\ scanPc = "race"
    /\ Len(pendingScans) >= 1
    /\ Len(emitted) >= 1
    /\ scanRequests - Len(pendingScans) > Len(emitted)
    /\ \E g \in DOMAIN segRows : segRows[g] = 0 /\ segmentLastKeys[g] = 0 /\ g < segmentIndex

====
